---- MODULE Spec2Model ----
(***************************************************************************)
(* Model of the kurate maintenance scripts:                                *)
(*   src/src/update_index.py, src/src/update_js.py  (marker patch scripts) *)
(*   src/build_chrome_extension.py, src/build_firefox_extension.py         *)
(*                                                   (packaging pipelines) *)
(*                                                                         *)
(* Text is modelled as a sequence of tokens; a token stands for a piece of *)
(* the real text (for instance "function get" or "StylesCSS() {").         *)
(* Offsets are 0-based as in Python.                                       *)
(***************************************************************************)
EXTENDS Integers, Sequences, FiniteSets, TLC

VARIABLES
    \* ---- patch scripts ----
    script,        \* which script the operator runs: "update_index" | "update_js"
    indexFile,     \* contents of index.js on disk
    snippetFile,   \* contents of the snippet file on disk
    pc,            \* position in the script body
    content,       \* variable `content`
    new_func,      \* variable `new_css_func` / `new_func`
    start_idx,     \* variable `start_idx`
    end_idx,       \* variable `end_idx`
    end_marker,    \* variable `end_marker` (update_js reassigns it)
    stdout,        \* lines printed by the current run
    exitStatus,    \* -1 while running, 0 after normal termination, 1 after exit(1)
    wrote,         \* TRUE once the current run has opened index.js for writing
    runs,          \* number of runs started
    before,        \* history: index.js as it was when the current run started
    prev,          \* history: outcome and start offset of the previous run
    \* ---- packaging pipelines ----
    platform,      \* which orchestrator the operator runs: "chrome" | "firefox"
    srcTree,       \* the extension source directory (src_dir)
    distTree,      \* the staging directory (dist_dir)
    zipFile,       \* the output archive (zip_path)
    bpc,           \* position in build_chrome_zip / build_firefox_zip
    manifest,      \* variable `manifest` of build_firefox_zip
    failedAt,      \* step at which the current run raised, "" if it has not
    stale          \* history: what the current run found when it started

patchVars == <<script, indexFile, snippetFile, pc, content, new_func, start_idx,
               end_idx, end_marker, stdout, exitStatus, wrote, runs, before, prev>>

buildVars == <<platform, srcTree, distTree, zipFile, bpc, manifest, failedAt, stale>>

vars == <<patchVars, buildVars>>

------------------------------------------------------------------------------
\* Bounds of the model
MaxLen  == 4    \* longest index.js buffer drawn initially (tokens)
MaxRepl == 2    \* longest snippet drawn initially (tokens)
MaxRuns == 2    \* runs of the same script in one behaviour
MaxScripts == 2 \* longest background.scripts list of a source manifest

------------------------------------------------------------------------------
\* Python string primitives

Min(a, b) == IF a < b THEN a ELSE b
Max(a, b) == IF a > b THEN a ELSE b

\* buf[k:k+len(sub)] == sub
OccursAt(buf, sub, k) ==
    /\ k >= 0
    /\ k + Len(sub) <= Len(buf)
    /\ SubSeq(buf, k + 1, k + Len(sub)) = sub

Occurrences(buf, sub) == {k \in 0..Len(buf) : OccursAt(buf, sub, k)}

\* A plausible slip: searching from the right (str.rfind)
FindLast(buf, sub) ==
    IF Occurrences(buf, sub) = {} THEN -1
    ELSE CHOOSE k \in Occurrences(buf, sub) : \A m \in Occurrences(buf, sub) : m <= k

\* str.find: lowest offset of sub in buf, or -1
Find(buf, sub) ==
    IF Occurrences(buf, sub) = {} THEN -1
    ELSE CHOOSE k \in Occurrences(buf, sub) : \A m \in Occurrences(buf, sub) : k <= m

\* Python slice bound normalisation: a negative bound counts from the end,
\* and the result is clamped to 0..len
ClampIdx(k, n) == IF k < 0 THEN Max(k + n, 0) ELSE Min(k, n)

\* buf[:k]
SliceTo(buf, k) == SubSeq(buf, 1, ClampIdx(k, Len(buf)))

\* buf[k:]
SliceFrom(buf, k) == SubSeq(buf, ClampIdx(k, Len(buf)) + 1, Len(buf))

\* str.endswith / str.startswith
EndsWith(s, suffix) ==
    /\ Len(suffix) <= Len(s)
    /\ SubSeq(s, Len(s) - Len(suffix) + 1, Len(s)) = suffix

StartsWith(s, prefix) ==
    /\ Len(prefix) <= Len(s)
    /\ SubSeq(s, 1, Len(prefix)) = prefix

\* all sequences over S of length at most n
SeqsUpTo(S, n) == UNION {[1..k -> S] : k \in 0..n}

------------------------------------------------------------------------------
\* The two patch scripts' literals

Scripts == {"update_index", "update_js"}

\* 'function getStylesCSS() {' / 'renderLinks() {'
StartMarker(s) ==
    IF s = "update_index" THEN <<"function get", "StylesCSS() {">>
    ELSE <<"renderLinks() {">>

\* 'function getAppJS() {' / 'async copyLink(url) {'
EndMarker(s) ==
    IF s = "update_index" THEN <<"function get", "AppJS() {">>
    ELSE <<"async ", "copyLink(url) {">>

\* the fallback end marker of update_js: 'copyLink(url) {'
LooseEndMarker == <<"copyLink(url) {">>

\* "\n\n" in update_index.py, "\n\n    " in update_js.py
Separator(s) ==
    IF s = "update_index" THEN <<"\n", "\n">> ELSE <<"\n", "\n", "    ">>

\* tokens the initial buffers and snippets are drawn from
Alphabet(s) ==
    IF s = "update_index" THEN {"function get", "StylesCSS() {", "AppJS() {"}
    ELSE {"renderLinks() {", "async ", "copyLink(url) {"}

------------------------------------------------------------------------------
\* Patch scripts: state machine of one module body

\* File system values shared by the packaging pipelines

\* a mapping with no keys (an empty dict, a directory without files)
Empty == [k \in {} |-> 0]

\* a directory or archive that does not exist
Absent == [exists |-> FALSE, files |-> Empty]

NothingStale == [dist |-> FALSE, zip |-> FALSE, foreign |-> FALSE]

\* the packaging variables while only the patch scripts are run
BuildUnused ==
    /\ platform = "chrome"
    /\ srcTree = Absent
    /\ distTree = Absent
    /\ zipFile = Absent
    /\ bpc = "idle"
    /\ manifest = Empty
    /\ failedAt = ""
    /\ stale = NothingStale

NoPrev == [outcome |-> "none", start |-> -1]

InitPatch ==
    /\ BuildUnused
    /\ script \in Scripts
    /\ indexFile \in SeqsUpTo(Alphabet(script), MaxLen)
    /\ snippetFile \in SeqsUpTo(Alphabet(script), MaxRepl)
    /\ pc = "idle"
    /\ content = <<>>
    /\ new_func = <<>>
    /\ start_idx = -1
    /\ end_idx = -1
    /\ end_marker = EndMarker(script)
    /\ stdout = <<>>
    /\ exitStatus = -1
    /\ wrote = FALSE
    /\ runs = 0
    /\ before = indexFile
    /\ prev = NoPrev

\* lines 7-17 of either script: read both files, set the markers, search
ReadAndFind ==
    /\ pc = "idle"
    /\ runs < MaxRuns
    /\ runs' = runs + 1
    /\ before' = indexFile
    /\ content' = indexFile
    /\ new_func' = snippetFile
    /\ end_marker' = EndMarker(script)
    /\ start_idx' = Find(indexFile, StartMarker(script))
    /\ end_idx' = Find(indexFile, EndMarker(script))
    /\ stdout' = <<>>
    /\ exitStatus' = -1
    /\ wrote' = FALSE
    /\ pc' = "check"
    /\ UNCHANGED <<script, indexFile, snippetFile, prev>>
    /\ UNCHANGED buildVars

\* A plausible slip: also rejecting an end marker that precedes the start
CheckIndexOrdered ==
    /\ pc = "check"
    /\ script = "update_index"
    /\ IF start_idx = -1 \/ end_idx = -1 \/ end_idx < start_idx
       THEN /\ stdout' = Append(stdout, "Error: Could not find markers")
            /\ exitStatus' = 1
            /\ pc' = "exited"
       ELSE /\ pc' = "splice"
            /\ UNCHANGED <<stdout, exitStatus>>
    /\ UNCHANGED <<script, indexFile, snippetFile, content, new_func, start_idx,
                   end_idx, end_marker, wrote, runs, before, prev>>
    /\ UNCHANGED buildVars

\* update_index.py lines 19-21
CheckIndex ==
    /\ pc = "check"
    /\ script = "update_index"
    /\ IF start_idx = -1 \/ end_idx = -1
       THEN /\ stdout' = Append(stdout, "Error: Could not find markers")
            /\ exitStatus' = 1
            /\ pc' = "exited"
       ELSE /\ pc' = "splice"
            /\ UNCHANGED <<stdout, exitStatus>>
    /\ UNCHANGED <<script, indexFile, snippetFile, content, new_func, start_idx,
                   end_idx, end_marker, wrote, runs, before, prev>>
    /\ UNCHANGED buildVars

\* update_js.py lines 19-29: the error is printed, but the script exits only
\* when the end marker is found neither strictly nor loosely
CheckJs ==
    /\ pc = "check"
    /\ script = "update_js"
    /\ IF start_idx = -1 \/ end_idx = -1
       THEN LET out3 == stdout \o <<"Error: Could not find markers",
                                    "Start found", "End found">>
            IN  IF end_idx = -1
                THEN /\ end_marker' = LooseEndMarker
                     /\ end_idx' = Find(content, LooseEndMarker)
                     /\ IF Find(content, LooseEndMarker) = -1
                        THEN /\ stdout' = Append(out3,
                                   "Error: Could not find end marker strict or loose")
                             /\ exitStatus' = 1
                             /\ pc' = "exited"
                        ELSE /\ stdout' = out3
                             /\ pc' = "splice"
                             /\ UNCHANGED exitStatus
                ELSE /\ stdout' = out3
                     /\ pc' = "splice"
                     /\ UNCHANGED <<end_marker, end_idx, exitStatus>>
       ELSE /\ pc' = "splice"
            /\ UNCHANGED <<stdout, exitStatus, end_marker, end_idx>>
    /\ UNCHANGED <<script, indexFile, snippetFile, content, new_func, start_idx,
                   wrote, runs, before, prev>>
    /\ UNCHANGED buildVars

\* A plausible slip: the separator is forgotten
SpliceNoSeparator(buf, i, j, repl, sep) ==
    SliceTo(buf, i) \o repl \o SliceFrom(buf, j)

\* A plausible slip: the end marker is consumed instead of preserved
SpliceDropEnd(buf, i, j, repl, sep) ==
    SliceTo(buf, i) \o repl \o sep \o SliceFrom(buf, j + 1)

\* content[:start_idx] + new_func + separator + content[end_idx:]
Splice(buf, i, j, repl, sep) ==
    SliceTo(buf, i) \o repl \o sep \o SliceFrom(buf, j)

\* update_index.py lines 24-29, update_js.py lines 32-37
SpliceAndWrite ==
    /\ pc = "splice"
    /\ indexFile' = Splice(content, start_idx, end_idx, new_func, Separator(script))
    /\ wrote' = TRUE
    /\ stdout' = Append(stdout, "Successfully updated")
    /\ exitStatus' = 0
    /\ pc' = "done"
    /\ UNCHANGED <<script, snippetFile, content, new_func, start_idx, end_idx,
                   end_marker, runs, before, prev>>
    /\ UNCHANGED buildVars

\* the operator runs the same script again
RunAgain ==
    /\ pc \in {"done", "exited"}
    /\ runs < MaxRuns
    /\ prev' = [outcome |-> IF pc = "done" THEN "written" ELSE "missing",
                start |-> start_idx]
    /\ pc' = "idle"
    /\ UNCHANGED <<script, indexFile, snippetFile, content, new_func, start_idx,
                   end_idx, end_marker, stdout, exitStatus, wrote, runs, before>>
    /\ UNCHANGED buildVars

NextPatch ==
    \/ ReadAndFind
    \/ CheckIndex
    \/ CheckJs
    \/ SpliceAndWrite
    \/ RunAgain

SpecPatch == InitPatch /\ [][NextPatch]_vars

------------------------------------------------------------------------------
\* Packaging pipelines: files, manifests, paths

Platforms == {"chrome", "firefox"}

\* os.path.sep of the host the scripts' paths are written for (c:\Users\...)
OsSep == "\\"

\* dist_dir
DistDir(pf) == IF pf = "chrome" THEN <<"chrome_dist">> ELSE <<"firefox_dist">>

\* file and directory names, as token sequences
NameManifest == <<"manifest", ".json">>
NameIcon     == <<"icon", ".png">>
NameReadme   == <<"README", ".md">>
NameDocsDir  == <<"docs", ".md">>
NameBgJs     == <<"bg", ".js">>

\* paths relative to a tree's root: sequences of names
PManifest == <<NameManifest>>
PIcon     == <<NameIcon>>
PReadme   == <<NameReadme>>
PNested   == <<NameDocsDir, NameBgJs>>

OtherPaths == {PIcon, PReadme, PNested}

\* file contents: a JSON text carries the document it denotes and how it is
\* laid out ("source": as the author wrote it, "indent4": json.dump(indent=4))
Blob == [kind |-> "blob", doc |-> Empty, fmt |-> "source"]
NotJson == [kind |-> "text", doc |-> Empty, fmt |-> "source"]
JsonText(d, f) == [kind |-> "json", doc |-> d, fmt |-> f]

\* json.load: the document, or a JSONDecodeError
JsonLoads(c) == c.kind = "json"
JsonLoad(c) == c.doc

\* json.dump(manifest, f, indent=4)
JsonDump(d) == JsonText(d, "indent4")

\* dict helpers
Has(d, k) == k \in DOMAIN d
Without(d, k) == [x \in DOMAIN d \ {k} |-> d[x]]
With(d, k, v) == [x \in DOMAIN d \cup {k} |-> IF x = k THEN v ELSE d[x]]
InList(v, l) == \E n \in 1..Len(l) : l[n] = v

\* A plausible slip: the service worker is appended without the membership test
TransformAlwaysAppend(m) ==
    IF Has(m, "background") /\ Has(m["background"], "service_worker")
    THEN LET sw == m["background"]["service_worker"]
             bg == Without(m["background"], "service_worker")
         IN  IF ~Has(bg, "scripts")
             THEN With(m, "background", With(bg, "scripts", <<sw>>))
             ELSE With(m, "background", With(bg, "scripts", Append(bg["scripts"], sw)))
    ELSE m

\* A plausible slip: the service worker is read but not popped
TransformKeepsWorker(m) ==
    IF Has(m, "background") /\ Has(m["background"], "service_worker")
    THEN LET sw == m["background"]["service_worker"]
             bg == m["background"]
         IN  IF ~Has(bg, "scripts")
             THEN With(m, "background", With(bg, "scripts", <<sw>>))
             ELSE IF ~InList(sw, bg["scripts"])
                  THEN With(m, "background", With(bg, "scripts", Append(bg["scripts"], sw)))
                  ELSE m
    ELSE m

\* build_firefox_extension.py lines 26-33
TransformForFirefox(m) ==
    IF Has(m, "background") /\ Has(m["background"], "service_worker")
    THEN LET sw == m["background"]["service_worker"]
             bg == Without(m["background"], "service_worker")
         IN  IF ~Has(bg, "scripts")
             THEN With(m, "background", With(bg, "scripts", <<sw>>))
             ELSE IF ~InList(sw, bg["scripts"])
                  THEN With(m, "background", With(bg, "scripts", Append(bg["scripts"], sw)))
                  ELSE With(m, "background", bg)
    ELSE m

\* os.path.join(a, b)
PathJoin(a, b) == a \o <<OsSep>> \o b

\* the host path of the file or directory at relative path p under base
RECURSIVE HostPath(_, _)
HostPath(base, p) ==
    IF p = <<>> THEN base ELSE HostPath(PathJoin(base, Head(p)), Tail(p))

\* os.path.relpath(path, start) for a path below start
RelPath(path, start) == SliceFrom(path, Len(start) + 1)

\* str.replace(old, new) for one-token old and new
Replace(str, old, new) == [n \in 1..Len(str) |-> IF str[n] = old THEN new ELSE str[n]]

\* A plausible slip: the relative path is used without normalising separators
ArcNameRaw(file_path, dist_dir) == RelPath(file_path, dist_dir)

\* os.path.relpath(file_path, dist_dir).replace(os.path.sep, '/')
ArcName(file_path, dist_dir) == Replace(RelPath(file_path, dist_dir), OsSep, "/")

\* the exclusion predicate of each pipeline: file.endswith('.md') for chrome,
\* nothing for firefox
Excluded(pf, file) == pf = "chrome" /\ EndsWith(file, <<".md">>)

\* os.walk(dist_dir): the (root, file) pairs of the files of a tree, with the
\* relative path each comes from
Walk(tree, dist_dir) ==
    {[root |-> HostPath(dist_dir, SubSeq(p, 1, Len(p) - 1)),
      file |-> p[Len(p)],
      path |-> p] : p \in DOMAIN tree.files}

\* the archive entries zipf.write produces for a set of walked files; an entry
\* records its archive name, its data and the staged file it was read from
EntriesOf(pf, tree, walked) ==
    {[arcname |-> ArcName(PathJoin(w.root, w.file), DistDir(pf)),
      data |-> tree.files[w.path],
      path |-> w.path] : w \in {x \in walked : ~Excluded(pf, x.file)}}

Restrict(f, S) == [x \in S |-> f[x]]

------------------------------------------------------------------------------
\* Source trees the behaviours start from

ScriptNames == {"bg.js", "other.js"}

\* background sections: optional service_worker, optional scripts list
Backgrounds ==
    {[k \in ks |-> IF k = "service_worker" THEN "bg.js" ELSE sc] :
        ks \in SUBSET {"service_worker", "scripts"},
        sc \in SeqsUpTo(ScriptNames, MaxScripts)}

\* manifests: a name, and optionally a background section
Manifests ==
    {[name |-> "kurate"]} \cup {[name |-> "kurate", background |-> b] : b \in Backgrounds}

TreeOf(others, manifestTexts) ==
    [exists |-> TRUE,
     files |-> [p \in others \cup {PManifest : c \in manifestTexts} |->
                  IF p = PManifest THEN CHOOSE c \in manifestTexts : TRUE ELSE Blob]]

\* manifests of the trees the full pipeline is explored on
BuildManifestTexts ==
    { JsonText([name |-> "kurate"], "source"),
      JsonText([name |-> "kurate", background |-> [service_worker |-> "bg.js"]], "source"),
      JsonText([name |-> "kurate",
                background |-> [service_worker |-> "bg.js",
                                scripts |-> <<"bg.js", "other.js">>]], "source"),
      NotJson }

BuildTrees ==
    {TreeOf(o, m) : o \in SUBSET OtherPaths,
                    m \in {{}} \cup {{c} : c \in BuildManifestTexts}}

\* trees for exploring the manifest step on every manifest
ManifestTrees ==
    {TreeOf(o, {JsonText(m, "source")}) : o \in {{}, {PReadme}}, m \in Manifests}
      \cup {TreeOf({PReadme}, {}), TreeOf({}, {NotJson})}

\* the patch variables while only the pipelines are run
PatchUnused ==
    /\ script = "update_index"
    /\ indexFile = <<>>
    /\ snippetFile = <<>>
    /\ pc = "idle"
    /\ content = <<>>
    /\ new_func = <<>>
    /\ start_idx = -1
    /\ end_idx = -1
    /\ end_marker = <<>>
    /\ stdout = <<>>
    /\ exitStatus = -1
    /\ wrote = FALSE
    /\ runs = 0
    /\ before = <<>>
    /\ prev = NoPrev

InitBuildVars ==
    /\ platform \in Platforms
    /\ distTree = Absent
    /\ zipFile = Absent
    /\ bpc = "idle"
    /\ manifest = Empty
    /\ failedAt = ""
    /\ stale = NothingStale

InitBuild ==
    /\ PatchUnused
    /\ InitBuildVars
    /\ srcTree \in BuildTrees \cup {Absent}

InitManifest ==
    /\ PatchUnused
    /\ InitBuildVars
    /\ srcTree \in ManifestTrees

------------------------------------------------------------------------------
\* Packaging pipelines: build_chrome_zip / build_firefox_zip

Fail(step) ==
    /\ bpc' = "failed"
    /\ failedAt' = step

\* names of the files a tree or archive holds that the source tree lacks
Foreign(paths) == \E p \in paths : p \notin DOMAIN srcTree.files

\* A plausible slip: the old archive is not removed
CleanupKeepsZip ==
    /\ bpc = "idle"
    /\ stale' = [dist |-> distTree.exists, zip |-> zipFile.exists,
                 foreign |-> Foreign(DOMAIN distTree.files
                                     \cup {e.path : e \in DOMAIN zipFile.files})]
    /\ distTree' = Absent
    /\ bpc' = "copy"
    /\ failedAt' = ""
    /\ manifest' = Empty
    /\ UNCHANGED <<platform, srcTree, zipFile>>
    /\ UNCHANGED patchVars

\* A plausible slip: the old staging directory is not removed
CleanupKeepsDist ==
    /\ bpc = "idle"
    /\ stale' = [dist |-> distTree.exists, zip |-> zipFile.exists,
                 foreign |-> Foreign(DOMAIN distTree.files
                                     \cup {e.path : e \in DOMAIN zipFile.files})]
    /\ zipFile' = Absent
    /\ bpc' = "copy"
    /\ failedAt' = ""
    /\ manifest' = Empty
    /\ UNCHANGED <<platform, srcTree, distTree>>
    /\ UNCHANGED patchVars

\* lines 11-15 (chrome 10-14): remove the staging directory and the archive
Cleanup ==
    /\ bpc = "idle"
    /\ stale' = [dist |-> distTree.exists, zip |-> zipFile.exists,
                 foreign |-> Foreign(DOMAIN distTree.files
                                     \cup {e.path : e \in DOMAIN zipFile.files})]
    /\ distTree' = Absent
    /\ zipFile' = Absent
    /\ bpc' = "copy"
    /\ failedAt' = ""
    /\ manifest' = Empty
    /\ UNCHANGED <<platform, srcTree>>
    /\ UNCHANGED patchVars

\* shutil.rmtree or os.remove raises during the clean up: the run ends with
\* the staging directory removed or not, and the archive still there
CleanupFails ==
    /\ bpc = "idle"
    /\ distTree.exists \/ zipFile.exists
    /\ \E removed \in BOOLEAN :
         /\ removed => (distTree.exists /\ zipFile.exists)
         /\ distTree' = IF removed THEN Absent ELSE distTree
    /\ stale' = [dist |-> distTree.exists, zip |-> zipFile.exists,
                 foreign |-> Foreign(DOMAIN distTree.files
                                     \cup {e.path : e \in DOMAIN zipFile.files})]
    /\ Fail("cleanup")
    /\ manifest' = Empty
    /\ UNCHANGED <<platform, srcTree, zipFile>>
    /\ UNCHANGED patchVars

\* line 18 (chrome 17): shutil.copytree(src_dir, dist_dir)
CopyTree ==
    /\ bpc = "copy"
    /\ IF ~srcTree.exists \/ distTree.exists
       THEN \* FileNotFoundError / FileExistsError before anything is created
            /\ Fail("copy")
            /\ UNCHANGED distTree
       ELSE /\ distTree' = srcTree
            /\ bpc' = IF platform = "firefox" THEN "manifest" ELSE "zip"
            /\ UNCHANGED failedAt
    /\ UNCHANGED <<platform, srcTree, zipFile, manifest, stale>>
    /\ UNCHANGED patchVars

\* the copy raises partway: only some of the files have been copied
CopyTreeFails ==
    /\ bpc = "copy"
    /\ srcTree.exists
    /\ ~distTree.exists
    /\ \E done \in SUBSET (DOMAIN srcTree.files) :
         /\ done # DOMAIN srcTree.files
         /\ distTree' = [exists |-> TRUE, files |-> Restrict(srcTree.files, done)]
    /\ Fail("copy")
    /\ UNCHANGED <<platform, srcTree, zipFile, manifest, stale>>
    /\ UNCHANGED patchVars

\* build_firefox_extension.py lines 21-40: load, rewrite and dump the manifest
FixManifest ==
    /\ bpc = "manifest"
    /\ PManifest \in DOMAIN distTree.files
    /\ JsonLoads(distTree.files[PManifest])
    /\ manifest' = TransformForFirefox(JsonLoad(distTree.files[PManifest]))
    /\ distTree' = [distTree EXCEPT !.files[PManifest] = JsonDump(manifest')]
    /\ bpc' = "zip"
    /\ UNCHANGED <<platform, srcTree, zipFile, failedAt, stale>>
    /\ UNCHANGED patchVars

\* open() raises FileNotFoundError or json.load raises JSONDecodeError
FixManifestFails ==
    /\ bpc = "manifest"
    /\ IF PManifest \in DOMAIN distTree.files
       THEN ~JsonLoads(distTree.files[PManifest])
       ELSE TRUE
    /\ Fail("manifest")
    /\ UNCHANGED <<platform, srcTree, distTree, zipFile, manifest, stale>>
    /\ UNCHANGED patchVars

\* lines 43-49 (chrome 23-34): write the archive from a walk of the staging tree
BuildZip ==
    /\ bpc = "zip"
    /\ LET walked == Walk(distTree, DistDir(platform))
           entries == EntriesOf(platform, distTree, walked)
       IN  zipFile' = [exists |-> TRUE, files |-> [e \in entries |-> e.data]]
    /\ bpc' = "final"
    /\ UNCHANGED <<platform, srcTree, distTree, manifest, failedAt, stale>>
    /\ UNCHANGED patchVars

\* the walk raises partway: the archive exists with only some entries
BuildZipFails ==
    /\ bpc = "zip"
    /\ \E done \in SUBSET Walk(distTree, DistDir(platform)) :
         /\ done # Walk(distTree, DistDir(platform))
         /\ LET entries == EntriesOf(platform, distTree, done)
            IN  zipFile' = [exists |-> TRUE, files |-> [e \in entries |-> e.data]]
    /\ Fail("zip")
    /\ UNCHANGED <<platform, srcTree, distTree, manifest, stale>>
    /\ UNCHANGED patchVars

\* lines 52-53 (chrome 37-38): remove the staging directory
FinalCleanup ==
    /\ bpc = "final"
    /\ distTree' = Absent
    /\ bpc' = "done"
    /\ UNCHANGED <<platform, srcTree, zipFile, manifest, failedAt, stale>>
    /\ UNCHANGED patchVars

\* the final rmtree raises: the staging directory stays
FinalCleanupFails ==
    /\ bpc = "final"
    /\ Fail("final")
    /\ UNCHANGED <<platform, srcTree, distTree, zipFile, manifest, stale>>
    /\ UNCHANGED patchVars

\* the process has ended; the operator may invoke the orchestrator again
Reinvoke ==
    /\ bpc \in {"done", "failed"}
    /\ bpc' = "idle"
    /\ UNCHANGED <<platform, srcTree, distTree, zipFile, manifest, failedAt, stale>>
    /\ UNCHANGED patchVars

\* between runs the source tree is edited
ChangeSource ==
    /\ bpc \in {"done", "failed"}
    /\ srcTree' \in (BuildTrees \cup {Absent}) \ {srcTree}
    /\ bpc' = "idle"
    /\ UNCHANGED <<platform, distTree, zipFile, manifest, failedAt, stale>>
    /\ UNCHANGED patchVars

RunStep ==
    \/ Cleanup
    \/ CleanupFails
    \/ CopyTree
    \/ CopyTreeFails
    \/ FixManifest
    \/ FixManifestFails
    \/ BuildZip
    \/ BuildZipFails
    \/ FinalCleanup
    \/ FinalCleanupFails
    \/ Reinvoke

NextBuild == RunStep \/ ChangeSource

SpecBuild == InitBuild /\ [][NextBuild]_vars

SpecManifest == InitManifest /\ [][RunStep]_vars

------------------------------------------------------------------------------
\* Vocabulary of the patch properties

\* k is the first offset at which sub occurs in buf
IsFirst(buf, sub, k) ==
    /\ OccursAt(buf, sub, k)
    /\ \A m \in 0..(k - 1) : ~OccursAt(buf, sub, m)

Present(buf, sub) == \E k \in 0..Len(buf) : OccursAt(buf, sub, k)

RunOver == pc \in {"done", "exited"}

\* offset right after the replacement and the separator, for start offset i
AfterRepl(i) == i + Len(snippetFile) + Len(Separator(script))

\* buf[a:b] for 0 <= a <= b <= len
Between(buf, a, b) == SubSeq(buf, a + 1, b)

\* C1: when the start marker or the end marker is absent from index.js, the
\* run reports an error, exits with status 1 and leaves index.js as it was.
C1_MissingMarkerNeverWrites ==
    (RunOver /\ (~Present(before, StartMarker(script))
                 \/ ~Present(before, EndMarker(script))))
    => /\ pc = "exited"
       /\ exitStatus = 1
       /\ stdout # <<>>
       /\ ~wrote
       /\ indexFile = before

\* C2: with the first start marker at i and the first end marker at j >= i,
\* the written buffer keeps B[0:i] and, from offset i + len(R) + len(sep)
\* onward, equals B[j:].
C2_PrefixAndSuffixKept ==
    RunOver =>
      \A i, j \in 0..Len(before) :
        (/\ IsFirst(before, StartMarker(script), i)
         /\ IsFirst(before, EndMarker(script), j)
         /\ j >= i)
        => /\ pc = "done"
           /\ wrote
           /\ Len(indexFile) >= AfterRepl(i)
           /\ Between(indexFile, 0, i) = Between(before, 0, i)
           /\ Between(indexFile, AfterRepl(i), Len(indexFile))
                = Between(before, j, Len(before))

C2_Witness ==
    /\ pc = "done"
    /\ snippetFile # <<>>
    /\ \E i, j \in 1..Len(before) :
         /\ IsFirst(before, StartMarker(script), i)
         /\ IsFirst(before, EndMarker(script), j)
         /\ j > i

\* C3 as stated: after a successful patch the buffer holds exactly one
\* occurrence of the end marker, at or after the original start offset.
C3_ExactlyOneEndMarker ==
    (pc = "done" /\ Present(before, StartMarker(script))
                 /\ Present(before, EndMarker(script)))
    => /\ Cardinality(Occurrences(indexFile, EndMarker(script))) = 1
       /\ \A k \in Occurrences(indexFile, EndMarker(script)) :
            \A i \in 0..Len(before) :
              IsFirst(before, StartMarker(script), i) => k >= i

\* C3 amended: after a successful patch the located end marker occurs at
\* offset i + len(R) + len(sep), which is at or after the start offset i;
\* further occurrences may exist.
C3_EndMarkerRetained ==
    pc = "done" =>
      \A i \in 0..Len(before) :
        IsFirst(before, StartMarker(script), i)
        => /\ OccursAt(indexFile, end_marker, AfterRepl(i))
           /\ AfterRepl(i) >= i
           /\ Cardinality(Occurrences(indexFile, end_marker)) >= 1

C3_Witness ==
    /\ pc = "done"
    /\ Present(before, StartMarker(script))
    /\ Cardinality(Occurrences(indexFile, end_marker)) >= 2

\* C8 as stated: a second run of the same patch on an already patched
\* buffer either rewrites the same buffer or fails with the missing-marker
\* error; it never writes a different buffer.
C8_OnlyTwoOutcomes ==
    (runs >= 2 /\ prev.outcome = "written" /\ pc = "done")
    => indexFile = before

\* the end marker a run over buf locates at offset p
LocatesEndAt(buf, p) ==
    \/ IsFirst(buf, EndMarker(script), p)
    \/ /\ script = "update_js"
       /\ ~Present(buf, EndMarker(script))
       /\ IsFirst(buf, LooseEndMarker, p)

\* C8 amended: after a successful first patch with start offset i, a second
\* run finds the start marker at i again whenever R begins with the start
\* marker, and whenever it finds the start marker at i and the end marker at
\* i + len(R) + len(sep) it rewrites the buffer unchanged.
C8_RepatchFixpoint ==
    (runs >= 2 /\ prev.outcome = "written" /\ prev.start >= 0 /\ RunOver)
    => /\ StartsWith(snippetFile, StartMarker(script))
          => IsFirst(before, StartMarker(script), prev.start)
       /\ (/\ IsFirst(before, StartMarker(script), prev.start)
           /\ LocatesEndAt(before, AfterRepl(prev.start)))
          => /\ pc = "done"
             /\ indexFile = before

C8_Witness ==
    /\ runs >= 2
    /\ prev.outcome = "written"
    /\ prev.start >= 0
    /\ pc = "done"
    /\ StartsWith(snippetFile, StartMarker(script))
    /\ LocatesEndAt(before, AfterRepl(prev.start))
    /\ indexFile = before

\* C10: whenever both markers are present the patch is written, also when
\* the first end marker lies before the first start marker (j < i); the
\* written buffer is B[0:i] + R + sep + B[j:], and for j < i it holds the
\* text B[j:i] twice.
C10_FirstOccurrencesUnordered ==
    RunOver =>
      \A i, j \in 0..Len(before) :
        (/\ IsFirst(before, StartMarker(script), i)
         /\ IsFirst(before, EndMarker(script), j))
        => /\ pc = "done"
           /\ exitStatus = 0
           /\ indexFile = Between(before, 0, i) \o snippetFile
                            \o Separator(script) \o Between(before, j, Len(before))
           /\ j < i =>
                /\ Between(indexFile, j, i) = Between(before, j, i)
                /\ Between(indexFile, AfterRepl(i), AfterRepl(i) + (i - j))
                     = Between(before, j, i)

C10_Witness ==
    /\ pc = "done"
    /\ \E i, j \in 0..Len(before) :
         /\ IsFirst(before, StartMarker(script), i)
         /\ IsFirst(before, EndMarker(script), j)
         /\ j < i

------------------------------------------------------------------------------
\* Vocabulary of the packaging properties

\* the names of p joined with '/'
RECURSIVE Slashed(_)
Slashed(p) ==
    IF Len(p) = 1 THEN p[1] ELSE p[1] \o <<"/">> \o Slashed(Tail(p))

\* the file's own name ends in '.md'
IsMarkdown(p) == p[Len(p)][Len(p[Len(p)])] = ".md"

SkippedBy(pf, p) == pf = "chrome" /\ IsMarkdown(p)

ArcNames == {e.arcname : e \in DOMAIN zipFile.files}

EntriesNamed(n) == {e \in DOMAIN zipFile.files : e.arcname = n}

NoDuplicates(l) == \A a, b \in 1..Len(l) : l[a] = l[b] => a = b

\* the Firefox run has a manifest in its source tree that parses
SourceParses ==
    /\ platform = "firefox"
    /\ srcTree.exists
    /\ PManifest \in DOMAIN srcTree.files
    /\ srcTree.files[PManifest].kind = "json"

SourceDoc == srcTree.files[PManifest].doc

SourceHasWorker ==
    /\ SourceParses
    /\ Has(SourceDoc, "background")
    /\ Has(SourceDoc["background"], "service_worker")

SourceScripts ==
    IF Has(SourceDoc["background"], "scripts")
    THEN SourceDoc["background"]["scripts"] ELSE <<>>

\* the manifest documents the run has written: staged, and archived
WrittenDocs ==
    (IF bpc \in {"zip", "final"} THEN {distTree.files[PManifest].doc} ELSE {})
    \cup (IF bpc \in {"final", "done"}
          THEN {zipFile.files[e].doc : e \in EntriesNamed(NameManifest)} ELSE {})

ManifestWritten == bpc \in {"zip", "final", "done"}

ManifestArchived == bpc \in {"final", "done"} => Cardinality(EntriesNamed(NameManifest)) = 1

\* C4 as stated: the written and archived manifest has no service_worker
\* under background, its scripts list holds the migrated value, and the
\* list has no duplicate entries.
C4_NoWorkerNoDuplicates ==
    (SourceHasWorker /\ ManifestWritten)
    => /\ ManifestArchived
       /\ \A d \in WrittenDocs :
            /\ Has(d, "background")
            /\ ~Has(d["background"], "service_worker")
            /\ Has(d["background"], "scripts")
            /\ InList(SourceDoc["background"]["service_worker"], d["background"]["scripts"])
            /\ NoDuplicates(d["background"]["scripts"])

\* C4 amended: the written and archived manifest has no service_worker under
\* background; its scripts list is the source list, extended by the migrated
\* value exactly when the source list lacks it, so it has no duplicates
\* whenever the source list has none; everything else is unchanged.
C4_WorkerMigratedOnce ==
    (SourceHasWorker /\ ManifestWritten)
    => /\ ManifestArchived
       /\ \A d \in WrittenDocs :
            LET sw == SourceDoc["background"]["service_worker"]
                out == d["background"]["scripts"]
            IN  /\ Has(d, "background")
                /\ ~Has(d["background"], "service_worker")
                /\ Has(d["background"], "scripts")
                /\ InList(sw, out)
                /\ SubSeq(out, 1, Len(SourceScripts)) = SourceScripts
                /\ Len(out) = Len(SourceScripts) + (IF InList(sw, SourceScripts) THEN 0 ELSE 1)
                /\ NoDuplicates(SourceScripts) => NoDuplicates(out)
                /\ Without(d, "background") = Without(SourceDoc, "background")

C4_Witness ==
    /\ SourceHasWorker
    /\ bpc = "done"
    /\ InList(SourceDoc["background"]["service_worker"], SourceScripts)
    /\ Len(SourceScripts) = 2
    /\ NoDuplicates(SourceScripts)
    /\ WrittenDocs # {}

\* the variable `manifest` holds the transformed document
Transformed ==
    /\ SourceParses
    /\ \/ bpc \in {"zip", "final", "done"}
       \/ bpc = "failed" /\ failedAt \in {"zip", "final"}

\* C5: the transform leaves a manifest without a background section or
\* without a service_worker key as it is, and applying it to its own output
\* changes nothing; {background: {service_worker: "bg.js"}} becomes
\* {background: {scripts: ["bg.js"]}}.
C5_IdentityAndIdempotent ==
    Transformed
    => /\ ~(Has(SourceDoc, "background") /\ Has(SourceDoc["background"], "service_worker"))
            => manifest = SourceDoc
       /\ TransformForFirefox(manifest) = manifest
       /\ SourceDoc = [name |-> "kurate", background |-> [service_worker |-> "bg.js"]]
            => manifest = [name |-> "kurate", background |-> [scripts |-> <<"bg.js">>]]

C5_Witness ==
    /\ Transformed
    /\ bpc = "done"
    /\ SourceDoc = [name |-> "kurate", background |-> [service_worker |-> "bg.js"]]
    /\ manifest # SourceDoc

\* C6: the archive has exactly one entry for each staged file the pipeline
\* does not exclude, named by the file's relative path with '/' separators,
\* and no other entry; chrome excludes the files whose name ends in '.md',
\* firefox none.
C6_ArchiveEntries ==
    /\ bpc = "final" =>
         /\ \A p \in DOMAIN distTree.files :
              Cardinality(EntriesNamed(Slashed(p))) = IF SkippedBy(platform, p) THEN 0 ELSE 1
         /\ \A n \in ArcNames :
              \E p \in DOMAIN distTree.files : ~SkippedBy(platform, p) /\ n = Slashed(p)
         /\ platform = "firefox" => Cardinality(ArcNames) = Cardinality(DOMAIN distTree.files)
         /\ (platform = "chrome" /\ DOMAIN distTree.files = {PManifest, PIcon, PReadme})
              => ArcNames = {NameManifest, NameIcon}
    /\ bpc = "done" =>
         ArcNames = {Slashed(p) : p \in {q \in DOMAIN srcTree.files : ~SkippedBy(platform, q)}}

C6_Witness ==
    /\ bpc = "final"
    /\ platform = "chrome"
    /\ DOMAIN distTree.files = {PManifest, PIcon, PReadme, PNested}
    /\ ArcNames = {NameManifest, NameIcon, <<"docs", ".md", "/", "bg", ".js">>}

\* C7: after a successful run the staging directory is gone and the archive
\* exists; after a run that fails at the manifest step the archive does not
\* exist (the staging directory may remain).
C7_OnlyArchiveLeft ==
    /\ bpc = "done" => (~distTree.exists /\ zipFile.exists)
    /\ (bpc = "failed" /\ failedAt = "manifest") => ~zipFile.exists

C7_Witness ==
    /\ bpc = "failed"
    /\ failedAt = "manifest"
    /\ stale.zip
    /\ stale.dist
    /\ distTree.exists

\* C9: in any sequence of runs, when the copy begins neither the staging
\* directory nor the archive exists, and the archive of a successful run has
\* entries only for files of the source tree of that run.
C9_NothingLeftOver ==
    /\ bpc = "copy" => (~distTree.exists /\ ~zipFile.exists)
    /\ bpc = "done" =>
         \A n \in ArcNames : \E p \in DOMAIN srcTree.files : n = Slashed(p)

C9_Witness ==
    /\ bpc = "done"
    /\ stale.dist
    /\ stale.zip
    /\ stale.foreign

====
